---- MODULE Spec2Model ----
(***************************************************************************)
(* Signalling relay: the in-memory offer/answer store and the HTTP         *)
(* resource router built on it, in its two variants                        *)
(*   "builtin"  signalling_server_builtin.py (ThreadingHTTPServer)         *)
(*   "fastapi"  signalling_server.py         (FastAPI route handlers)      *)
(* Request targets and dictionary keys are strings; request and response   *)
(* bodies are sequences of bytes; stored payloads are sequences of code    *)
(* points (Python str).                                                    *)
(***************************************************************************)
EXTENDS Integers, Sequences, FiniteSets, TLC

VARIABLES
  variant,        \* which of the two servers is the running process
  offers,         \* offers / _offers
  answers,        \* answers / _answers
  \* requests served one at a time
  req, resp,      \* the request served last and its response
  lastOffer,      \* per room: body of the last PUT offer answered 2xx
  pendingAnswer,  \* per room: body of the last PUT answer answered 2xx and
                  \* not yet returned by a DELETE answered 200
  answerTrace,    \* where the answer exchange of room TraceRoom stands
  \* requests served concurrently, one handler thread (task) each
  pc,             \* per thread: "idle", "store" or "respond"
  treq, tresp,    \* per thread: its current (or last) request and response
  tquiet,         \* per thread: accepted while every other thread was idle,
                  \* and no request accepted since
  tovl,           \* per thread: its request overlapped another request
  nreq,           \* requests accepted so far
  untaken,        \* per room: an answer was stored that no DELETE has
                  \* returned yet
  doubleTake,     \* some stored answer was returned by two DELETEs
  raced,          \* two PUT answer with different bodies overlapped
  putBodies,      \* per room: bodies of the PUT answer requests accepted
  \* the two peers of one handshake
  hs,             \* what each peer has sent and received so far
  \* both servers fed the same requests
  pair            \* the request sent last and, for each server, its
                  \* response and its two dictionaries

seqVars == <<req, resp, lastOffer, pendingAnswer, answerTrace>>
thrVars == <<pc, treq, tresp, tquiet, tovl, nreq, untaken, doubleTake,
             raced, putBodies>>
vars == <<variant, offers, answers, seqVars, thrVars, hs, pair>>

(***************************************************************************)
(* Program constants                                                       *)
(***************************************************************************)
PREFIX == "sig"

OK == 200
NO_CONTENT == 204
BAD_REQUEST == 400
NOT_FOUND == 404
METHOD_NOT_ALLOWED == 405
TEMPORARY_REDIRECT == 307
INTERNAL_SERVER_ERROR == 500
NOT_IMPLEMENTED == 501
\* a handler that raised: the connection is closed without a response
NO_RESPONSE == 0

CORS_HEADERS ==
  [ Origin      |-> "*",
    Credentials |-> "true",
    Headers     |-> "*",
    Methods     |-> "GET, PUT, DELETE, OPTIONS" ]

NoCors == [ Origin |-> "", Credentials |-> "", Headers |-> "", Methods |-> "" ]

(***************************************************************************)
(* Inputs                                                                  *)
(***************************************************************************)
Variants == {"builtin", "fastapi"}
Methods == {"PUT", "GET", "DELETE", "OPTIONS", "POST"}
\* room ids are opaque: a plain one, one that is a resource name, one that
\* contains the separator of the dictionary keys
RoomIds == {"r1", "offer", "a:b"}
LastSegments == {"offer", "answer", "health"}

\* request bodies, as bytes: empty, "A", U+00E9 in UTF-8, a truncated
\* two-byte sequence (not valid UTF-8)
BodyA == <<65>>
BodyE == <<195, 169>>
BodyBad == <<195>>
Bodies == {<<>>, BodyA, BodyE, BodyBad}

ThreePartPaths ==
  { "/" \o PREFIX \o "/" \o r \o "/" \o s : r \in RoomIds, s \in LastSegments }
  \cup { "/" \o p \o "/r1/" \o s : p \in {PREFIX, "other"}, s \in LastSegments }

OtherPaths ==
  { "/health", "/sig/health", "/sig/r1",
    "/sig/r1/offer/", "/sig//r1/answer", "/sig/r1/offer/health",
    "/sig/r1/offer?x=/health", "/sig/r1/answer?x=1" }

Paths == ThreePartPaths \cup OtherPaths

\* paths for the verbs that are answered without a look at the resource
FewPaths ==
  { "/sig/r1/offer", "/sig/r1/answer", "/other/r1/offer", "/health", "/sig/r1" }

\* PUT, the only verb whose body is read, with every body on the paths of
\* room r1 and with an empty and a non-empty body elsewhere; the other verbs
\* without a body
Requests ==
  { [method |-> "PUT", path |-> p, body |-> b] :
       p \in Paths \ ThreePartPaths, b \in {<< >>, BodyA} }
  \cup { [method |-> "PUT", path |-> p, body |-> b] :
            p \in ThreePartPaths, b \in {<< >>, BodyA} }
  \cup { [method |-> "PUT", path |-> p, body |-> b] :
            p \in {"/sig/r1/offer", "/sig/r1/answer"}, b \in Bodies }
  \cup { [method |-> m, path |-> p, body |-> << >>] :
            m \in {"GET", "DELETE"}, p \in Paths }
  \cup { [method |-> m, path |-> p, body |-> << >>] :
            m \in {"OPTIONS", "POST"}, p \in FewPaths }

NoRequest == [method |-> "", path |-> "", body |-> << >>]

(***************************************************************************)
(* Strings                                                                 *)
(***************************************************************************)
EndsWith(s, suffix) ==
  /\ Len(s) >= Len(suffix)
  /\ SubSeq(s, Len(s) - Len(suffix) + 1, Len(s)) = suffix

\* index of the first character of s at or after i that is in chars,
\* Len(s) + 1 when there is none
FindFirst(s, chars, i) ==
  LET hits == { j \in i..Len(s) : SubSeq(s, j, j) \in chars }
  IN  IF hits = {} THEN Len(s) + 1
      ELSE CHOOSE j \in hits : \A k \in hits : j <= k

\* str.split(sep): the pieces between separators, empty pieces included
Split(s, sep) ==
  LET cuts == {0} \cup { j \in 1..Len(s) : SubSeq(s, j, j) = sep }
                  \cup {Len(s) + 1}
      nth(k) == CHOOSE c \in cuts : Cardinality({ d \in cuts : d < c }) = k - 1
  IN  [ k \in 1..(Cardinality(cuts) - 1) |->
          SubSeq(s, nth(k) + 1, nth(k + 1) - 1) ]

\* urlparse(raw).path for an origin-form target: the part before the
\* first '?' or '#'
UrlPath(raw) == SubSeq(raw, 1, FindFirst(raw, {"?", "#"}, 1) - 1)

\* [segment for segment in ... if segment]
NonEmpty(segs) == SelectSeq(segs, LAMBDA segment : segment # "")

(***************************************************************************)
(* UTF-8, for the one- and two-byte forms (all that Bodies contains)       *)
(***************************************************************************)
DecodeError == << -1 >>

RECURSIVE Decode(_)
Decode(bytes) ==
  IF bytes = << >> THEN << >>
  ELSE LET b == Head(bytes)
       IN  IF b < 128
           THEN LET rest == Decode(Tail(bytes))
                IN  IF rest = DecodeError THEN DecodeError
                    ELSE << b >> \o rest
           ELSE IF /\ b >= 194 /\ b <= 223 /\ Len(bytes) >= 2
                   /\ bytes[2] >= 128 /\ bytes[2] <= 191
           THEN LET rest == Decode(SubSeq(bytes, 3, Len(bytes)))
                IN  IF rest = DecodeError THEN DecodeError
                    ELSE << (b - 192) * 64 + (bytes[2] - 128) >> \o rest
           ELSE DecodeError

RECURSIVE Encode(_)
Encode(str) ==
  IF str = << >> THEN << >>
  ELSE LET c == Head(str)
       IN  IF c < 128 THEN << c >> \o Encode(Tail(str))
           ELSE << 192 + (c \div 64), 128 + (c % 64) >> \o Encode(Tail(str))

(***************************************************************************)
(* Dictionaries: a function from the keys present to their values          *)
(***************************************************************************)
EmptyDict == [k \in {} |-> << >>]

None == [some |-> FALSE, val |-> << >>]
Some(v) == [some |-> TRUE, val |-> v]

\* an assignment that is lost
DictSetDrop(d, k, v) == d

\* an assignment that appends to the value already stored
DictSetMerge(d, k, v) ==
  [x \in DOMAIN d \cup {k} |->
     IF x = k THEN (IF k \in DOMAIN d THEN d[k] \o v ELSE v) ELSE d[x]]

\* an assignment that drops every other entry
DictSetClear(d, k, v) == [x \in {k} |-> v]

DictSet(d, k, v) == [x \in DOMAIN d \cup {k} |-> IF x = k THEN v ELSE d[x]]

Lookup(d, k) == IF k \in DOMAIN d THEN Some(d[k]) ELSE None

\* a method call yields its result and the dictionary after the call

\* a lookup that inserts an empty value for a missing key (setdefault)
DictSetDefault(d, k) ==
  [ value |-> IF k \in DOMAIN d THEN Some(d[k]) ELSE Some(<< >>),
    dict  |-> [x \in DOMAIN d \cup {k} |->
                 IF x \in DOMAIN d THEN d[x] ELSE << >>] ]

DictGet(d, k) == [ value |-> Lookup(d, k), dict |-> d ]

\* a pop that returns the value and leaves the entry in place
DictPopKeep(d, k) == [ value |-> Lookup(d, k), dict |-> d ]

DictPop(d, k) ==
  [ value |-> Lookup(d, k),
    dict  |-> [x \in DOMAIN d \ {k} |-> d[x]] ]

(***************************************************************************)
(* Responses                                                               *)
(***************************************************************************)
NoJson == [detail |-> "", status |-> "", hasRoom |-> FALSE, room |-> ""]
Detail(message) == [NoJson EXCEPT !.detail = message]
Health == [NoJson EXCEPT !.status = "ok"]
HealthRoom(r) == [NoJson EXCEPT !.status = "ok", !.hasRoom = TRUE, !.room = r]

TEXT == "text/plain; charset=utf-8"
JSON == "application/json; charset=utf-8"

NoResponse ==
  [ status |-> NO_RESPONSE, ctype |-> "", cors |-> NoCors, allow |-> "",
    body |-> << >>, json |-> NoJson ]

\* SignallingHandler._set_headers: status line, content type, the CORS
\* headers, then the extra headers; nothing written to the body yet
set_headers(status, content_type, allow) ==
  [ status |-> status, ctype |-> content_type, cors |-> CORS_HEADERS,
    allow |-> allow, body |-> << >>, json |-> NoJson ]

\* SignallingHandler._write_detail
write_detail(status, message, allow) ==
  [ set_headers(status, JSON, allow) EXCEPT !.json = Detail(message) ]

\* _set_headers followed by wfile.write(value.encode('utf-8'))
write_text(status, value) ==
  [ set_headers(status, TEXT, "") EXCEPT !.body = Encode(value) ]

write_json(status, json) ==
  [ set_headers(status, JSON, "") EXCEPT !.json = json ]

(***************************************************************************)
(* signalling_server_builtin.py                                            *)
(***************************************************************************)
path_segments(raw_path) == NonEmpty(Split(UrlPath(raw_path), "/"))

NoParse == [ok |-> FALSE, error |-> "", room_id |-> "", resource |-> ""]

\* parse_path without its prefix check
parse_path_any_prefix(path) ==
  LET parts == NonEmpty(Split(UrlPath(path), "/"))
  IN  IF Len(parts) # 3 THEN [NoParse EXCEPT !.error = "Invalid path"]
      ELSE IF parts[3] \notin {"offer", "answer"}
           THEN [NoParse EXCEPT !.error = "Unknown resource"]
      ELSE [ok |-> TRUE, error |-> "", room_id |-> parts[2],
            resource |-> parts[3]]

\* parse_path without its resource check
parse_path_any_resource(path) ==
  LET parts == NonEmpty(Split(UrlPath(path), "/"))
  IN  IF Len(parts) # 3 THEN [NoParse EXCEPT !.error = "Invalid path"]
      ELSE IF parts[1] # PREFIX THEN [NoParse EXCEPT !.error = "Unknown prefix"]
      ELSE [ok |-> TRUE, error |-> "", room_id |-> parts[2],
            resource |-> parts[3]]

parse_path(path) ==
  LET parts == path_segments(path)
  IN  IF Len(parts) # 3 THEN [NoParse EXCEPT !.error = "Invalid path"]
      ELSE IF parts[1] # PREFIX THEN [NoParse EXCEPT !.error = "Unknown prefix"]
      ELSE IF parts[3] \notin {"offer", "answer"}
           THEN [NoParse EXCEPT !.error = "Unknown resource"]
      ELSE [ok |-> TRUE, error |-> "", room_id |-> parts[2],
            resource |-> parts[3]]

\* read_body: Content-Length bytes decoded as UTF-8, '' when the length is 0
read_body(r) == IF Len(r.body) # 0 THEN Decode(r.body) ELSE << >>

\* a test for the empty string that no string passes
body_is_None(body) == FALSE

\* "not body": the body is the empty string
not_body(body) == body = << >>

\* what a handler has decided once it has parsed its request and (for PUT)
\* read the body: a finished response, or one dictionary operation to do
Respond(response) ==
  [ done |-> TRUE, resp |-> response, op |-> "", resource |-> "",
    key |-> "", body |-> << >> ]
StoreOp(op, resource, key, body) ==
  [ done |-> FALSE, resp |-> NoResponse, op |-> op, resource |-> resource,
    key |-> key, body |-> body ]

\* SignallingHandler._handle up to its dictionary operation
handle_begin(method, r) ==
  LET p == parse_path(r.path)
      key == p.resource \o ":" \o p.room_id
  IN  IF ~p.ok THEN Respond(write_detail(NOT_FOUND, p.error, ""))
      ELSE IF method = "PUT"
      THEN LET body == read_body(r)
           IN  IF body = DecodeError THEN Respond(NoResponse)
               ELSE IF not_body(body)
               THEN Respond(write_detail(BAD_REQUEST,
                       IF p.resource = "offer" THEN "Offer body is empty"
                       ELSE "Answer body is empty", ""))
               ELSE StoreOp("set", p.resource, key, body)
      ELSE IF method = "GET" /\ p.resource = "offer"
      THEN StoreOp("get", p.resource, key, << >>)
      ELSE IF method = "DELETE" /\ p.resource = "answer"
      THEN StoreOp("pop", p.resource, key, << >>)
      ELSE Respond(write_detail(METHOD_NOT_ALLOWED, "Method not allowed",
                      IF p.resource = "offer" THEN "GET, PUT"
                      ELSE "PUT, DELETE"))

\* the dictionary operation of SignallingHandler._handle and the response
\* that follows it; store is offers or answers according to the resource
handle_store(plan, store) ==
  IF plan.op = "set"
  THEN [ store |-> DictSet(store, plan.key, plan.body),
         resp  |-> set_headers(NO_CONTENT, TEXT, "") ]
  ELSE IF plan.op = "get"
  THEN LET got == DictGet(store, plan.key)
       IN  [ store |-> got.dict,
             resp  |-> IF got.value = None
                       THEN write_detail(NOT_FOUND, "Offer not found", "")
                       ELSE write_text(OK, got.value.val) ]
  ELSE LET popped == DictPop(store, plan.key)
       IN  [ store |-> popped.dict,
             resp  |-> IF popped.value = None
                       THEN set_headers(NO_CONTENT, TEXT, "")
                       ELSE write_text(OK, popped.value.val) ]

\* SignallingHandler._health
health(r) ==
  LET parts == path_segments(r.path)
  IN  IF Len(parts) = 1 /\ parts[1] = "health"
      THEN write_json(OK, Health)
      ELSE IF Len(parts) = 2 /\ parts[1] = PREFIX /\ parts[2] = "health"
      THEN write_json(OK, Health)
      ELSE IF Len(parts) = 3 /\ parts[1] = PREFIX /\ parts[3] = "health"
      THEN write_json(OK, HealthRoom(parts[2]))
      ELSE write_detail(NOT_FOUND, "Not found", "")

\* BaseHTTPRequestHandler answers a verb the handler class has no do_<verb>
\* method for with send_error(501): an HTML page, none of the CORS headers
send_error(status) ==
  [ NoResponse EXCEPT !.status = status, !.ctype = "text/html;charset=utf-8" ]

\* a handler class without do_OPTIONS
builtin_begin_no_options(r) ==
  IF r.method = "GET"
  THEN (IF EndsWith(r.path, "/health") THEN Respond(health(r))
        ELSE handle_begin("GET", r))
  ELSE IF r.method \in {"PUT", "DELETE"} THEN handle_begin(r.method, r)
  ELSE Respond(send_error(NOT_IMPLEMENTED))

\* do_PUT, do_GET, do_DELETE, do_OPTIONS
builtin_begin(r) ==
  IF r.method = "OPTIONS" THEN Respond(set_headers(NO_CONTENT, TEXT, ""))
  ELSE IF r.method = "GET"
  THEN (IF EndsWith(r.path, "/health") THEN Respond(health(r))
        ELSE handle_begin("GET", r))
  ELSE IF r.method \in {"PUT", "DELETE"} THEN handle_begin(r.method, r)
  ELSE Respond(send_error(NOT_IMPLEMENTED))

(***************************************************************************)
(* signalling_server.py                                                    *)
(***************************************************************************)
\* CORSMiddleware as configured by app.add_middleware, on the response to a
\* request that carries an Origin header and is not a preflight
SimpleCors ==
  [ Origin |-> "*", Credentials |-> "true", Headers |-> "", Methods |-> "" ]

PlainTextResponse(content, status_code) ==
  [ status |-> status_code, ctype |-> TEXT, cors |-> SimpleCors,
    allow |-> "", body |-> Encode(content), json |-> NoJson ]

HTTPException(status_code, detail, allow) ==
  [ status |-> status_code, ctype |-> "application/json", cors |-> SimpleCors,
    allow |-> allow, body |-> << >>, json |-> Detail(detail) ]

\* f"{prefix}:{room_id}"
key(prefix, room_id) == prefix \o ":" \o room_id

\* the request body of put_offer / put_answer, decoded
request_body(r) == Decode(r.body)

\* the route table the decorators build, in registration order; a path
\* parameter matches one non-empty segment
Routes ==
  << [method |-> "PUT",    last |-> "offer",  name |-> "put_offer"],
     [method |-> "GET",    last |-> "offer",  name |-> "get_offer"],
     [method |-> "PUT",    last |-> "answer", name |-> "put_answer"],
     [method |-> "DELETE", last |-> "answer", name |-> "delete_answer"] >>

PathMatches(route, segs) ==
  /\ Len(segs) = 4
  /\ segs[1] = "" /\ segs[2] # "" /\ segs[3] # ""
  /\ segs[4] = route.last

\* the part of each route handler before its dictionary operation:
\* _validate_prefix, then (for the PUT handlers) the body and its check
endpoint_begin(route, prefix, room_id, r) ==
  IF prefix # PREFIX
  THEN Respond(HTTPException(NOT_FOUND, "Unknown prefix", ""))
  ELSE IF route.method = "PUT"
  THEN LET body == request_body(r)
       IN  IF body = DecodeError
           THEN Respond([NoResponse EXCEPT !.status = INTERNAL_SERVER_ERROR])
           ELSE IF body = << >>
           THEN Respond(HTTPException(BAD_REQUEST,
                   IF route.last = "offer" THEN "Offer body is empty"
                   ELSE "Answer body is empty", ""))
           ELSE StoreOp("set", route.last, key(prefix, room_id), body)
  ELSE IF route.method = "GET"
  THEN StoreOp("get", route.last, key(prefix, room_id), << >>)
  ELSE StoreOp("pop", route.last, key(prefix, room_id), << >>)

\* the dictionary operation of put_offer / put_answer ("set"), get_offer
\* ("get") and delete_answer ("pop") and the response each returns
endpoint_store(plan, store) ==
  IF plan.op = "set"
  THEN [ store |-> DictSet(store, plan.key, plan.body),
         resp  |-> PlainTextResponse(<< >>, OK) ]
  ELSE IF plan.op = "get"
  THEN [ store |-> store,
         resp  |-> IF plan.key \notin DOMAIN store
                   THEN HTTPException(NOT_FOUND, "Offer not found", "")
                   ELSE PlainTextResponse(store[plan.key], OK) ]
  ELSE LET popped == DictPop(store, plan.key)
       IN  [ store |-> popped.dict,
             resp  |-> IF popped.value = None
                       THEN PlainTextResponse(<< >>, NO_CONTENT)
                       ELSE PlainTextResponse(popped.value.val, OK) ]

\* routing: the first route matching path and verb; else the first route
\* matching the path alone answers 405; else a slash redirect or 404
fastapi_begin(r) ==
  LET segs == Split(UrlPath(r.path), "/")
      full == { i \in 1..Len(Routes) :
                  PathMatches(Routes[i], segs) /\ Routes[i].method = r.method }
      partial == { i \in 1..Len(Routes) : PathMatches(Routes[i], segs) }
      first(S) == CHOOSE i \in S : \A j \in S : i <= j
      trimmed == SubSeq(segs, 1, Len(segs) - 1)
  IN  IF r.method = "OPTIONS"
      THEN Respond([PlainTextResponse(<< 79, 75 >>, OK)
                      EXCEPT !.cors = CORS_HEADERS])
      ELSE IF full # {}
      THEN endpoint_begin(Routes[first(full)], segs[2], segs[3], r)
      ELSE IF segs = << "", "health" >>
      THEN IF r.method = "GET"
           THEN Respond([HTTPException(OK, "", "") EXCEPT !.json = Health])
           ELSE Respond(HTTPException(METHOD_NOT_ALLOWED,
                                      "Method Not Allowed", "GET"))
      ELSE IF partial # {}
      THEN Respond(HTTPException(METHOD_NOT_ALLOWED, "Method Not Allowed",
                                 Routes[first(partial)].method))
      ELSE IF /\ Len(segs) > 2 /\ segs[Len(segs)] = ""
              /\ \/ trimmed = << "", "health" >>
                 \/ \E i \in 1..Len(Routes) : PathMatches(Routes[i], trimmed)
      THEN Respond([NoResponse EXCEPT !.status = TEMPORARY_REDIRECT])
      ELSE Respond(HTTPException(NOT_FOUND, "Not Found", ""))

(***************************************************************************)
(* One request, start to finish, against the variant that is running       *)
(***************************************************************************)
Begin(v, r) == IF v = "builtin" THEN builtin_begin(r) ELSE fastapi_begin(r)

\* Begin depends on the request alone: tabulated once for all requests
BeginOf == [v \in Variants |-> [r \in Requests |-> Begin(v, r)]]

Store(v, plan, store) ==
  IF v = "builtin" THEN handle_store(plan, store)
  ELSE endpoint_store(plan, store)

\* the whole handler: response and both dictionaries after it
Serve(v, r, offs, answs) ==
  LET plan == BeginOf[v][r]
  IN  IF plan.done
      THEN [resp |-> plan.resp, offers |-> offs, answers |-> answs]
      ELSE IF plan.resource = "offer"
      THEN LET out == Store(v, plan, offs)
           IN  [resp |-> out.resp, offers |-> out.store, answers |-> answs]
      ELSE LET out == Store(v, plan, answs)
           IN  [resp |-> out.resp, offers |-> offs, answers |-> out.store]

(***************************************************************************)
(* What a client can tell from requests and responses alone                *)
(***************************************************************************)
\* the target's path component is exactly /sig/<room>/<resource>
Canonical(path, room, resource) ==
  UrlPath(path) = "/" \o PREFIX \o "/" \o room \o "/" \o resource

\* the target's non-empty path segments are sig, <room>, <resource>
Names(path, room, resource) ==
  NonEmpty(Split(UrlPath(path), "/")) = << PREFIX, room, resource >>

Success(response) == response.status \in {OK, NO_CONTENT}

Resources == {"offer", "answer"}
NoTarget == [room |-> "", resource |-> ""]

\* the (room, resource) a request names, if any
Target(r) ==
  IF \E room \in RoomIds, res \in Resources : Names(r.path, room, res)
  THEN CHOOSE t \in [room : RoomIds, resource : Resources] :
          Names(r.path, t.room, t.resource)
  ELSE NoTarget

TargetOf == [r \in Requests |-> Target(r)]

\* the (room, resource) whose canonical path is the request's path
CanonTarget(r) ==
  IF \E room \in RoomIds, res \in Resources : Canonical(r.path, room, res)
  THEN CHOOSE t \in [room : RoomIds, resource : Resources] :
          Canonical(r.path, t.room, t.resource)
  ELSE NoTarget

CanonOf == [r \in Requests \cup {NoRequest} |-> CanonTarget(r)]

\* the path has a first segment and it is not the prefix literal
WrongPrefix(r) ==
  LET segs == NonEmpty(Split(UrlPath(r.path), "/"))
  IN  segs # << >> /\ segs[1] # PREFIX

WrongPrefixOf == [r \in Requests \cup {NoRequest} |-> WrongPrefix(r)]

TraceRoom == "r1"

\* the answer exchange of one room, driven by the responses seen:
\*   empty -PUT-> put1 -PUT-> put2 -DELETE 200-> taken -DELETE 204-> drained
TraceAfter(trace, method, status) ==
  IF method = "PUT" /\ status \in {OK, NO_CONTENT}
  THEN (IF trace \in {"put1", "put2"} THEN "put2" ELSE "put1")
  ELSE IF method = "DELETE" /\ status = OK
  THEN (IF trace = "put2" THEN "taken" ELSE "empty")
  ELSE IF method = "DELETE" /\ status = NO_CONTENT
  THEN (IF trace \in {"taken", "drained"} THEN "drained" ELSE trace)
  ELSE trace

(***************************************************************************)
(* Requests served one at a time                                           *)
(***************************************************************************)
NumThreads == 3
MaxRequests == 4
Threads == 1..NumThreads

\* a server that has served nothing: no response, both dictionaries empty
FreshServer ==
  [ resp |-> NoResponse, offers |-> EmptyDict, answers |-> EmptyDict ]

Init ==
  /\ variant \in Variants
  /\ offers = EmptyDict
  /\ answers = EmptyDict
  /\ pc = [t \in Threads |-> "idle"]
  /\ treq = [t \in Threads |-> NoRequest]
  /\ tresp = [t \in Threads |-> NoResponse]
  /\ tquiet = [t \in Threads |-> FALSE]
  /\ tovl = [t \in Threads |-> FALSE]
  /\ nreq = 0
  /\ untaken = [room \in RoomIds |-> FALSE]
  /\ doubleTake = FALSE
  /\ raced = FALSE
  /\ putBodies = [room \in RoomIds |-> {}]
  /\ hs = [ a |-> "start", b |-> "polling", offer |-> None, answer |-> None,
            gotOffer |-> None, gotAnswer |-> None ]
  /\ req = NoRequest
  /\ resp = NoResponse
  /\ lastOffer = [room \in RoomIds |-> None]
  /\ pendingAnswer = [room \in RoomIds |-> None]
  /\ answerTrace = "empty"
  /\ pair = [ req |-> NoRequest, builtin |-> FreshServer,
              fastapi |-> FreshServer ]

Observe(r, response) ==
  \E t \in {TargetOf[r]} :
      /\ lastOffer' =
           IF t.resource = "offer" /\ r.method = "PUT" /\ Success(response)
           THEN [lastOffer EXCEPT ![t.room] = Some(r.body)]
           ELSE lastOffer
      /\ pendingAnswer' =
           IF t.resource = "answer" /\ r.method = "PUT" /\ Success(response)
           THEN [pendingAnswer EXCEPT ![t.room] = Some(r.body)]
           ELSE IF /\ t.resource = "answer" /\ r.method = "DELETE"
                   /\ response.status = OK
           THEN [pendingAnswer EXCEPT ![t.room] = None]
           ELSE pendingAnswer
      /\ answerTrace' =
           IF t.resource = "answer" /\ t.room = TraceRoom
           THEN TraceAfter(answerTrace, r.method, response.status)
           ELSE answerTrace

Request(r) ==
  \E out \in {Serve(variant, r, offers, answers)} :
      /\ req' = r
      /\ resp' = out.resp
      /\ offers' = out.offers
      /\ answers' = out.answers
      /\ Observe(r, out.resp)
      /\ UNCHANGED <<variant, thrVars, hs, pair>>

BuiltinRequest == variant = "builtin" /\ \E r \in Requests : Request(r)
FastapiRequest == variant = "fastapi" /\ \E r \in Requests : Request(r)

Next == BuiltinRequest \/ FastapiRequest

Spec == Init /\ [][Next]_vars

TypeOK ==
  /\ variant \in Variants
  /\ req \in Requests \cup {NoRequest}
  /\ \A k \in DOMAIN offers : offers[k] # << >>
  /\ resp.status \in {NO_RESPONSE, OK, NO_CONTENT, BAD_REQUEST, NOT_FOUND,
                       METHOD_NOT_ALLOWED, TEMPORARY_REDIRECT,
                       INTERNAL_SERVER_ERROR, NOT_IMPLEMENTED}

(***************************************************************************)
(* Requests served concurrently.  A handler touches the shared             *)
(* dictionaries in one dictionary operation (store[key] = body,            *)
(* store.get(key), store.pop(key, None)), which the interpreter runs       *)
(* without interleaving; everything before and after it is local to the    *)
(* handler.  The framework variant runs its handlers as tasks of one event *)
(* loop, which can interleave only at the await of the request body.       *)
(***************************************************************************)
ConcRoom == "r1"
AnswerPath == "/" \o PREFIX \o "/" \o ConcRoom \o "/answer"

ConcRequests ==
  { [method |-> "PUT", path |-> AnswerPath, body |-> b] :
       b \in {<< >>, BodyA, BodyE} }
  \cup { [method |-> "DELETE", path |-> AnswerPath, body |-> << >>] }

IsPutAnswer(r, room) ==
  /\ r \in Requests /\ r.method = "PUT"
  /\ TargetOf[r] = [room |-> room, resource |-> "answer"]
  /\ ~BeginOf[variant][r].done

IsDeleteAnswer(r, room) ==
  /\ r \in Requests /\ r.method = "DELETE"
  /\ TargetOf[r] = [room |-> room, resource |-> "answer"]

\* the handler of thread t runs up to its dictionary operation
AcceptStep(t, r) ==
  \E plan \in {BeginOf[variant][r]} :
      /\ pc[t] = "idle"
      /\ treq' = [treq EXCEPT ![t] = r]
      /\ pc' = [pc EXCEPT ![t] = IF plan.done THEN "respond" ELSE "store"]
      /\ tresp' = [tresp EXCEPT ![t] = IF plan.done THEN plan.resp
                                        ELSE NoResponse]
      /\ UNCHANGED <<variant, offers, answers, seqVars, untaken, doubleTake,
                     pair>>

\* how the request thread t accepts stands to the requests of the others
AcceptNotes(t, r) ==
  LET alone == \A u \in Threads \ {t} : pc[u] = "idle"
      room == TargetOf[r].room
  IN  /\ tquiet' = [u \in Threads |-> u = t /\ alone]
      /\ tovl' = [u \in Threads |->
                    IF u = t THEN ~alone ELSE tovl[u] \/ pc[u] # "idle"]
      /\ raced' = (raced \/ (/\ IsPutAnswer(r, room)
                              /\ \E u \in Threads \ {t} :
                                    /\ pc[u] # "idle"
                                    /\ IsPutAnswer(treq[u], room)
                                    /\ treq[u].body # r.body))
      /\ putBodies' = IF IsPutAnswer(r, room)
                      THEN [putBodies EXCEPT ![room] = @ \cup {r.body}]
                      ELSE putBodies

Accept(t) ==
  /\ nreq < MaxRequests
  /\ nreq' = nreq + 1
  /\ \E r \in ConcRequests : AcceptStep(t, r) /\ AcceptNotes(t, r)
  /\ UNCHANGED hs

\* the dictionary operation of thread t's handler
DoStore(t) ==
  /\ pc[t] = "store"
  /\ \E plan \in {BeginOf[variant][treq[t]]},
        room \in {TargetOf[treq[t]].room} :
     \E out \in {Store(variant, plan,
                        IF plan.resource = "offer" THEN offers ELSE answers)} :
     LET set == plan.resource = "answer" /\ plan.op = "set"
         took == /\ plan.resource = "answer" /\ plan.op = "pop"
                 /\ out.resp.status = OK
     IN
      /\ pc' = [pc EXCEPT ![t] = "respond"]
      /\ tresp' = [tresp EXCEPT ![t] = out.resp]
      /\ offers' = IF plan.resource = "offer" THEN out.store ELSE offers
      /\ answers' = IF plan.resource = "offer" THEN answers ELSE out.store
      /\ untaken' = IF set THEN [untaken EXCEPT ![room] = TRUE]
                    ELSE IF took THEN [untaken EXCEPT ![room] = FALSE]
                    ELSE untaken
      /\ doubleTake' = (doubleTake \/ (took /\ ~untaken[room]))
      /\ UNCHANGED <<variant, seqVars, treq, tquiet, tovl, nreq, raced,
                     putBodies, hs, pair>>

\* the response of thread t's handler reaches the client
ReplyStep(t) ==
  /\ pc[t] = "respond"
  /\ pc' = [pc EXCEPT ![t] = "idle"]
  /\ UNCHANGED <<variant, offers, answers, seqVars, treq, tresp, tquiet,
                 tovl, nreq, untaken, doubleTake, raced, putBodies, pair>>

Reply(t) == ReplyStep(t) /\ UNCHANGED hs

NextConc == \E t \in Threads : Accept(t) \/ DoStore(t) \/ Reply(t)

SpecConc == Init /\ [][NextConc]_vars

(***************************************************************************)
(* One handshake.  Peer A (requests handled by thread PeerA) publishes an  *)
(* offer for HsRoom and then polls DELETE answer until it gets 200; peer B *)
(* (thread PeerB) polls GET offer until it gets 200 and then publishes its *)
(* answer.  A bystander (thread Bystander) sends requests for another      *)
(* room.  Each peer sends its next request when the previous one has been  *)
(* answered.                                                               *)
(***************************************************************************)
HandshakeThreads == << 1, 2, 3 >>
PeerA == HandshakeThreads[1]
PeerB == HandshakeThreads[2]
Bystander == HandshakeThreads[3]
HsRoom == "r1"
OtherRoom == "offer"

Path(room, resource) == "/" \o PREFIX \o "/" \o room \o "/" \o resource
Payloads == {BodyA, BodyE}

PutOffer(room, p) == [method |-> "PUT", path |-> Path(room, "offer"), body |-> p]
GetOffer(room) == [method |-> "GET", path |-> Path(room, "offer"), body |-> << >>]
PutAnswer(room, p) == [method |-> "PUT", path |-> Path(room, "answer"), body |-> p]
DeleteAnswer(room) ==
  [method |-> "DELETE", path |-> Path(room, "answer"), body |-> << >>]

PeerASend ==
  \/ /\ hs.a = "start"
     /\ \E o \in Payloads :
          /\ AcceptStep(PeerA, PutOffer(HsRoom, o))
          /\ hs' = [hs EXCEPT !.a = "offering", !.offer = Some(o)]
     /\ UNCHANGED <<nreq, tquiet, tovl, raced, putBodies>>
  \/ /\ hs.a = "waiting"
     /\ AcceptStep(PeerA, DeleteAnswer(HsRoom))
     /\ UNCHANGED <<nreq, hs, tquiet, tovl, raced, putBodies>>

PeerARecv ==
  /\ ReplyStep(PeerA)
  /\ hs' = IF hs.a = "offering" /\ Success(tresp[PeerA])
           THEN [hs EXCEPT !.a = "waiting"]
           ELSE IF hs.a = "offering" THEN [hs EXCEPT !.a = "start"]
           ELSE IF hs.a = "waiting" /\ tresp[PeerA].status = OK
           THEN [hs EXCEPT !.a = "done",
                           !.gotAnswer = Some(tresp[PeerA].body)]
           ELSE hs

PeerBSend ==
  \/ /\ hs.b = "polling"
     /\ AcceptStep(PeerB, GetOffer(HsRoom))
     /\ UNCHANGED <<nreq, hs, tquiet, tovl, raced, putBodies>>
  \/ /\ hs.b = "answering"
     /\ \E a \in Payloads :
          /\ AcceptStep(PeerB, PutAnswer(HsRoom, a))
          /\ hs' = [hs EXCEPT !.b = "sent", !.answer = Some(a)]
     /\ UNCHANGED <<nreq, tquiet, tovl, raced, putBodies>>

PeerBRecv ==
  /\ ReplyStep(PeerB)
  /\ hs' = IF hs.b = "polling" /\ tresp[PeerB].status = OK
           THEN [hs EXCEPT !.b = "answering",
                           !.gotOffer = Some(tresp[PeerB].body)]
           ELSE IF hs.b = "sent" /\ Success(tresp[PeerB])
           THEN [hs EXCEPT !.b = "done"]
           ELSE IF hs.b = "sent" THEN [hs EXCEPT !.b = "answering"]
           ELSE hs

BystanderRequests ==
  { PutOffer(OtherRoom, BodyA), GetOffer(OtherRoom),
    PutAnswer(OtherRoom, BodyA), DeleteAnswer(OtherRoom) }

BystanderSend ==
  /\ \E r \in BystanderRequests : AcceptStep(Bystander, r)
  /\ UNCHANGED <<nreq, hs, tquiet, tovl, raced, putBodies>>

BystanderRecv == Reply(Bystander)

HandlerRuns == \E t \in {PeerA, PeerB, Bystander} : DoStore(t)

NextHandshake ==
  \/ PeerASend \/ PeerARecv \/ PeerBSend \/ PeerBRecv
  \/ BystanderSend \/ BystanderRecv \/ HandlerRuns

\* every handler thread that can run does run, and a peer that can send
\* its next request or receive a response does
FairHandshake ==
  /\ WF_vars(PeerASend) /\ WF_vars(PeerARecv)
  /\ WF_vars(PeerBSend) /\ WF_vars(PeerBRecv)
  /\ WF_vars(DoStore(PeerA)) /\ WF_vars(DoStore(PeerB))

SpecHandshake == Init /\ [][NextHandshake]_vars /\ FairHandshake

(***************************************************************************)
(* The two servers side by side, each with its own dictionaries, both      *)
(* starting empty and both sent the same request at every step: one of the *)
(* four protocol operations on a three-segment path.                       *)
(***************************************************************************)
PairPaths ==
  { Path(room, res) : room \in RoomIds, res \in Resources }
  \cup { "/other/r1/offer", "/other/r1/answer" }

\* PUT offer, GET offer, PUT answer, DELETE answer, with a body that is text
PairRequests ==
  { r \in Requests :
      /\ r.path \in PairPaths
      /\ r.body # BodyBad
      /\ \/ EndsWith(r.path, "/offer") /\ r.method \in {"PUT", "GET"}
         \/ EndsWith(r.path, "/answer") /\ r.method \in {"PUT", "DELETE"} }

SideBySide(r) ==
  \E b \in {Serve("builtin", r, pair.builtin.offers, pair.builtin.answers)},
     f \in {Serve("fastapi", r, pair.fastapi.offers, pair.fastapi.answers)} :
      /\ pair' = [req |-> r, builtin |-> b, fastapi |-> f]
      /\ UNCHANGED <<variant, offers, answers, seqVars, thrVars, hs>>

NextPair == \E r \in PairRequests : SideBySide(r)

SpecPair == Init /\ [][NextPair]_vars

(***************************************************************************)
(* Properties                                                              *)
(***************************************************************************)
GetOfferReturnsLastPut(room) ==
  IF lastOffer[room].some
  THEN resp.status = OK /\ resp.body = lastOffer[room].val
  ELSE resp.status = NOT_FOUND

\* C1: a GET whose path is /sig/<room>/offer returns 200 with exactly the
\* body of the most recent successful PUT offer for that room, and 404 when
\* no PUT offer for the room has succeeded
C1_GetOfferReturnsLastPut ==
  \A room \in RoomIds :
     req.method = "GET" /\ Canonical(req.path, room, "offer")
        => GetOfferReturnsLastPut(room)

\* the same for targets without query or fragment
C1_PlainTarget ==
  \A room \in RoomIds :
     req.method = "GET" /\ req.path = "/" \o PREFIX \o "/" \o room \o "/offer"
        => GetOfferReturnsLastPut(room)

\* C2: a DELETE whose path is /sig/<room>/answer returns 200 with exactly
\* the body of the last successful PUT answer for the room that no DELETE
\* has returned yet, and consumes it; when there is none (never put, or
\* already consumed) it returns 204 with an empty body
C2_DeleteStep ==
  \A room \in RoomIds :
     req'.method = "DELETE"
     /\ CanonOf[req'] = [room |-> room, resource |-> "answer"]
        => IF pendingAnswer[room].some
           THEN /\ resp'.status = OK
                /\ resp'.body = pendingAnswer[room].val
                /\ ~pendingAnswer'[room].some
           ELSE /\ resp'.status = NO_CONTENT
                /\ resp'.body = << >>
                /\ resp'.json = NoJson

C2_DeleteAnswerTakes == [][C2_DeleteStep]_vars

\* PUT, PUT, DELETE answered 200, DELETE answered 204, all on TraceRoom
C2_Witness ==
  /\ answerTrace = "drained"
  /\ req.method = "DELETE"
  /\ Canonical(req.path, TraceRoom, "answer")
  /\ resp.status = NO_CONTENT

\* C3: no stored answer is returned (status 200) by two DELETE requests,
\* however the handlers interleave
C3_NoDoubleTake == ~doubleTake

\* two DELETE answer requests that overlapped: one took the answer, the
\* other got 204
C3_Witness ==
  /\ \A t \in {1, 2} : pc[t] = "idle" /\ IsDeleteAnswer(treq[t], ConcRoom)
  /\ tovl[1] /\ tovl[2] /\ nreq = 3
  /\ tresp[1].status = OK
  /\ tresp[2].status = NO_CONTENT /\ tresp[2].body = << >>

\* no dictionary key of either variant holds an answer for the room
NoAnswerFor(room) ==
  DOMAIN answers \cap {"answer:" \o room, PREFIX \o ":" \o room} = {}

\* the first two requests were PUT answer with different non-empty bodies,
\* overlapping; the third is thread t's DELETE answer, accepted after both
\* had completed and now completed itself
RacedPutsThenDelete(t) ==
  /\ raced /\ nreq = 3
  /\ IsDeleteAnswer(treq[t], ConcRoom)
  /\ tquiet[t] /\ pc[t] = "idle"

\* C4: after two overlapping PUT answer with bodies A and B have both
\* completed, one DELETE answer returns 200 with exactly A or exactly B,
\* and then no answer for the room remains
C4_RacingPutsOneWinner ==
  \A t \in Threads :
     RacedPutsThenDelete(t)
        => /\ tresp[t].status = OK
           /\ tresp[t].body \in putBodies[ConcRoom]
           /\ NoAnswerFor(ConcRoom)

C4_Witness ==
  /\ RacedPutsThenDelete(1)
  /\ putBodies[ConcRoom] = {BodyA, BodyE}
  /\ tresp[1].body = BodyE

HandshakeDone ==
  /\ hs.a = "done" /\ hs.b = "done"
  /\ hs.offer.some /\ hs.gotOffer = hs.offer
  /\ hs.answer.some /\ hs.gotAnswer = hs.answer

\* C5: with fair scheduling and nobody else using the room, B eventually
\* holds exactly the offer A published and A exactly the answer B published
C5_HandshakeCompletes == <>HandshakeDone

C5_Witness ==
  /\ HandshakeDone
  /\ hs.offer = Some(BodyE) /\ hs.answer = Some(BodyA)
  /\ DOMAIN answers # {}

StoreUnchanged == offers' = offers /\ answers' = answers

\* the entry either variant keeps for the room's offer
OfferEntry(room) ==
  LET ks == DOMAIN offers \cap {"offer:" \o room, PREFIX \o ":" \o room}
  IN  IF ks = {} THEN None ELSE Some(offers[CHOOSE k \in ks : TRUE])

C6_Step ==
  req'.method = "PUT" /\ req'.body = << >> /\ CanonOf[req'] # NoTarget
     => resp'.status = BAD_REQUEST /\ StoreUnchanged

\* C6: a PUT with an empty body on /sig/<room>/<offer|answer> is answered
\* 400 and changes neither dictionary
C6_EmptyPutRejected == [][C6_Step]_vars

\* an empty PUT offer refused while an offer for the room is stored
C6_Witness ==
  /\ req = [method |-> "PUT", path |-> "/sig/r1/offer", body |-> << >>]
  /\ resp.status = BAD_REQUEST
  /\ resp.json.detail = "Offer body is empty"
  /\ OfferEntry("r1") = Some(<< 233 >>)

C7_Original_Step ==
  variant = "builtin" /\ WrongPrefixOf[req']
     => resp'.status = NOT_FOUND /\ StoreUnchanged

\* C7 as claimed: in the stdlib server every request whose first path
\* segment is not the prefix literal is answered 404, whatever its verb
C7_WrongPrefixAnyVerb == [][C7_Original_Step]_vars

C7_Step ==
  ( /\ variant = "builtin"
    /\ WrongPrefixOf[req']
    /\ req'.method \in {"GET", "PUT", "DELETE"}
    /\ ~(req'.method = "GET" /\ req'.path = "/health") )
  => ( /\ resp'.status = NOT_FOUND
       /\ BeginOf[variant][req'].done
       /\ StoreUnchanged )

\* C7 amended: in the stdlib server a GET, PUT or DELETE request whose
\* first path segment is not the prefix literal, other than the probe
\* GET /health, is answered 404 whatever its body, before any dictionary
\* operation, and changes neither dictionary
C7_WrongPrefixNotFound == [][C7_Step]_vars

\* a PUT with a body under another prefix, refused by a server that holds
\* an offer
C7_Witness ==
  /\ variant = "builtin"
  /\ req = [method |-> "PUT", path |-> "/other/r1/offer", body |-> BodyA]
  /\ resp.status = NOT_FOUND /\ resp.json.detail = "Unknown prefix"
  /\ DOMAIN offers # {}

SupportedVerbs(resource) ==
  IF resource = "offer" THEN {"GET", "PUT"} ELSE {"PUT", "DELETE"}
AllowHeader(resource) ==
  IF resource = "offer" THEN "GET, PUT" ELSE "PUT, DELETE"

\* the request's path is /sig/<room>/<resource> and its verb, not the
\* preflight verb, is one the resource does not support
UnsupportedVerb(r) ==
  /\ CanonOf[r] # NoTarget
  /\ r.method \notin SupportedVerbs(CanonOf[r].resource) \cup {"OPTIONS"}

C8_Step ==
  variant = "builtin" /\ UnsupportedVerb(req')
     => /\ resp'.status = METHOD_NOT_ALLOWED
        /\ resp'.allow = AllowHeader(CanonOf[req'].resource)
        /\ StoreUnchanged

\* C8: in the stdlib server a request on /sig/<room>/<offer|answer> with a
\* verb the resource does not support is answered 405 with an Allow header
\* listing the resource's verbs, and changes neither dictionary
C8_UnsupportedVerb405 == [][C8_Step]_vars

\* the same for the verbs the handler class defines
C8_DefinedVerbs ==
  [][req'.method \in {"GET", "PUT", "DELETE"} => C8_Step]_vars

C9_Step ==
  \A room \in RoomIds :
     /\ (lastOffer'[room].some => OfferEntry(room)'.some)
     /\ (OfferEntry(room).some => OfferEntry(room)'.some)
     /\ (OfferEntry(room)' # OfferEntry(room))
        => ( /\ req'.method = "PUT"
             /\ TargetOf[req'] = [room |-> room, resource |-> "offer"]
             /\ Success(resp') )
     /\ ( /\ req'.method = "GET"
          /\ CanonOf[req'] = [room |-> room, resource |-> "offer"]
          /\ lastOffer[room].some )
        => resp'.status # NOT_FOUND

\* the part of C9 about the offer entry alone
C9_EntryStep ==
  \A room \in RoomIds :
     /\ (lastOffer'[room].some => OfferEntry(room)'.some)
     /\ (OfferEntry(room).some => OfferEntry(room)'.some)
     /\ (OfferEntry(room)' # OfferEntry(room))
        => ( /\ req'.method = "PUT"
             /\ TargetOf[req'] = [room |-> room, resource |-> "offer"]
             /\ Success(resp') )

C9_EntryPersists == [][C9_EntryStep]_vars

\* C9: once a PUT offer for a room has succeeded the room's offer entry is
\* present ever after, it changes only by a later successful PUT offer for
\* the room, and GET offer for the room is never answered 404 again
C9_OfferPersists == [][C9_Step]_vars

\* no offer entry of either variant for the room
NoOfferFor(room) == ~OfferEntry(room).some

C10_Step ==
  ( \/ resp'.status \in {NOT_FOUND, BAD_REQUEST, METHOD_NOT_ALLOWED}
    \/ /\ req'.method = "DELETE" /\ TargetOf[req'].resource = "answer"
       /\ NoAnswerFor(TargetOf[req'].room)
    \/ /\ req'.method = "GET" /\ TargetOf[req'].resource = "offer"
       /\ NoOfferFor(TargetOf[req'].room) )
  => StoreUnchanged

\* C10: a request answered 404, 400 or 405, a DELETE answer for a room
\* without a stored answer and a GET offer for a room without a stored
\* offer change neither dictionary
C10_FailuresLeaveStore == [][C10_Step]_vars

\* a DELETE answer with nothing to take, on a server that holds an offer
\* and another room's answer
C10_Witness ==
  /\ req = [method |-> "DELETE", path |-> "/sig/r1/answer", body |-> << >>]
  /\ resp.status = NO_CONTENT
  /\ NoAnswerFor("r1") /\ ~NoAnswerFor("offer")
  /\ ~NoOfferFor("r1")

\* every request is answered after the step as it would have been before it
SameAnswersAfter ==
  \A r \in Requests :
     Serve(variant, r, offers', answers') = Serve(variant, r, offers, answers)

C11_Step ==
  variant = "builtin" /\ req'.method = "OPTIONS"
     => ( /\ resp'.status = NO_CONTENT
          /\ resp'.body = << >> /\ resp'.json = NoJson
          /\ StoreUnchanged
          /\ SameAnswersAfter )

\* C11: in the stdlib server an OPTIONS request on any path is answered 204
\* with an empty body and changes neither dictionary, so that every request
\* made after it is answered as if the OPTIONS request had not been made
C11_OptionsNoEffect == [][C11_Step]_vars

\* OPTIONS under another prefix, on a server that holds an offer and an
\* answer
C11_Witness ==
  /\ variant = "builtin"
  /\ req = [method |-> "OPTIONS", path |-> "/other/r1/offer", body |-> << >>]
  /\ resp.status = NO_CONTENT
  /\ ~NoOfferFor("r1") /\ ~NoAnswerFor("r1")

\* the probe answer a GET on a health path is to get: ok without a room for
\* /health and /sig/health, ok with the room for /sig/<room>/health
ProbeAnswers(path, json) ==
  /\ path \in {"/health", "/" \o PREFIX \o "/health"} => json = Health
  /\ \A room \in RoomIds :
        path = Path(room, "health") => json = HealthRoom(room)

IsProbe(r) ==
  /\ r.method = "GET"
  /\ r.path \in {"/health", "/" \o PREFIX \o "/health"}
                 \cup { Path(room, "health") : room \in RoomIds }

C12_Step ==
  IsProbe(req')
     => ( /\ resp'.status = OK
          /\ ProbeAnswers(req'.path, resp'.json)
          /\ BeginOf[variant][req'].done
          /\ StoreUnchanged )

\* C12: whatever the dictionaries hold, GET /sig/<room>/health is answered
\* 200 with status ok and the room, GET /health and GET /sig/health 200 with
\* status ok and no room, by a handler that runs no dictionary operation
C12_HealthProbe == [][C12_Step]_vars

\* the same for the stdlib server alone
C12_Builtin == [][variant = "builtin" => C12_Step]_vars

\* the same for the one probe the framework variant registers
C12_Fastapi ==
  [][variant = "fastapi" /\ req'.path = "/health" => C12_Step]_vars

\* C13: every response the server sends carries the four permissive
\* cross-origin headers
C13_CorsOnEveryResponse ==
  resp.status # NO_RESPONSE => resp.cors = CORS_HEADERS

\* the same for the responses the stdlib handler class writes itself
C13_DefinedVerbs ==
  ( /\ variant = "builtin"
    /\ req.method \in {"GET", "PUT", "DELETE", "OPTIONS"}
    /\ resp.status # NO_RESPONSE )
  => resp.cors = CORS_HEADERS

\* the path's non-empty segments are not three, or the third is neither
\* offer nor answer
BadShape(r) ==
  LET segs == NonEmpty(Split(UrlPath(r.path), "/"))
  IN  Len(segs) # 3 \/ segs[3] \notin Resources

BadShapeOf == [r \in Requests \cup {NoRequest} |-> BadShape(r)]

\* a GET whose target ends in /health and whose segments are health,
\* sig/health or sig/<room>/health
ProbeShape(r) ==
  LET segs == NonEmpty(Split(UrlPath(r.path), "/"))
  IN  /\ r.method = "GET" /\ EndsWith(r.path, "/health")
      /\ \/ segs = << "health" >>
         \/ segs = << PREFIX, "health" >>
         \/ Len(segs) = 3 /\ segs[1] = PREFIX /\ segs[3] = "health"

ProbeShapeOf == [r \in Requests \cup {NoRequest} |-> ProbeShape(r)]

RejectedBeforeStore ==
  /\ resp'.status = NOT_FOUND
  /\ BeginOf[variant][req'].done
  /\ StoreUnchanged

C14_Original_Step ==
  ( /\ variant = "builtin"
    /\ req'.method \in {"GET", "PUT", "DELETE"}
    /\ BadShapeOf[req'] )
  => RejectedBeforeStore

\* C14 as claimed: in the stdlib server every GET, PUT or DELETE whose path
\* is not three non-empty segments ending in offer or answer is answered 404
\* before any dictionary operation
C14_BadShapeAlways404 == [][C14_Original_Step]_vars

C14_Step ==
  ( /\ variant = "builtin"
    /\ req'.method \in {"GET", "PUT", "DELETE"}
    /\ BadShapeOf[req']
    /\ ~ProbeShapeOf[req'] )
  => RejectedBeforeStore

\* C14 amended: in the stdlib server a GET, PUT or DELETE whose path is not
\* three non-empty segments ending in offer or answer, other than a GET
\* health probe, is answered 404 before any dictionary operation, whatever
\* its body and verb, and changes neither dictionary
C14_BadShapeNotFound == [][C14_Step]_vars

\* an empty PUT on a two-segment path refused as not found, not as a bad
\* request, by a server that holds an offer
C14_Witness ==
  /\ variant = "builtin"
  /\ req = [method |-> "PUT", path |-> "/sig/r1", body |-> << >>]
  /\ resp.status = NOT_FOUND /\ resp.json.detail = "Invalid path"
  /\ ~NoOfferFor("r1")

\* C15: every value either dictionary holds is a non-empty string, so a
\* DELETE answer answered 200 has a non-empty body and one answered 204 an
\* empty one
C15_StoredValuesNonEmpty ==
  /\ \A k \in DOMAIN offers : offers[k] # << >>
  /\ \A k \in DOMAIN answers : answers[k] # << >>
  /\ ( req.method = "DELETE" /\ TargetOf[req].resource = "answer" )
     => /\ (resp.status = OK => resp.body # << >>)
        /\ (resp.status = NO_CONTENT => resp.body = << >>)

\* a DELETE answer that returned a stored two-byte payload while another
\* room's answer stays stored
C15_Witness ==
  /\ req = [method |-> "DELETE", path |-> "/sig/r1/answer", body |-> << >>]
  /\ resp.status = OK /\ resp.body = BodyE
  /\ ~NoAnswerFor("a:b")

\* the entry either variant keeps for the room's answer
AnswerEntry(room) ==
  LET ks == DOMAIN answers \cap {"answer:" \o room, PREFIX \o ":" \o room}
  IN  IF ks = {} THEN None ELSE Some(answers[CHOOSE k \in ks : TRUE])

C16_Step ==
  \A room \in RoomIds :
     /\ (TargetOf[req'] # [room |-> room, resource |-> "offer"]
           => OfferEntry(room)' = OfferEntry(room))
     /\ (TargetOf[req'] # [room |-> room, resource |-> "answer"]
           => AnswerEntry(room)' = AnswerEntry(room))

\* C16: a request that names (resource, room) leaves unchanged the entry of
\* every other room and the entry of the other resource for the same room;
\* a request that names no resource of a room leaves every entry unchanged
C16_KeyIsolation == [][C16_Step]_vars

\* a new offer for r1 stored while the stale answer for r1 and the entries
\* of the rooms "offer" and "a:b" stay
C16_Witness ==
  /\ req = [method |-> "PUT", path |-> "/sig/r1/offer", body |-> BodyE]
  /\ OfferEntry("r1") = Some(<< 233 >>)
  /\ AnswerEntry("r1") = Some(<< 65 >>)
  /\ OfferEntry("a:b").some /\ AnswerEntry("offer").some

\* the only two requests so far are thread t's PUT answer with a non-empty
\* body and thread u's DELETE answer for the same room, and both are done
PutAndDeleteDone(t, u) ==
  /\ nreq = 2 /\ t # u
  /\ \A w \in Threads : pc[w] = "idle"
  /\ IsPutAnswer(treq[t], ConcRoom)
  /\ IsDeleteAnswer(treq[u], ConcRoom)

\* C17: a PUT answer with payload p and a DELETE answer for the same room,
\* on a room without a stored answer, end in one of two ways however they
\* interleave: the DELETE got 204 and p is stored, or the DELETE got 200
\* with p and nothing is stored
C17_PutDeleteRace ==
  \A t, u \in Threads :
     PutAndDeleteDone(t, u)
        => \/ /\ tresp[u].status = NO_CONTENT /\ tresp[u].body = << >>
              /\ AnswerEntry(ConcRoom) = Some(Decode(treq[t].body))
           \/ /\ tresp[u].status = OK /\ tresp[u].body = treq[t].body
              /\ AnswerEntry(ConcRoom) = None

\* the two requests overlapped and the DELETE took the payload
C17_Witness ==
  /\ PutAndDeleteDone(1, 2)
  /\ tovl[1] /\ tovl[2]
  /\ treq[1].body = BodyE
  /\ tresp[2].status = OK /\ tresp[2].body = BodyE

\* the two requests overlapped and the DELETE came first
C17_WitnessStored ==
  /\ PutAndDeleteDone(1, 2)
  /\ tovl[1] /\ tovl[2]
  /\ tresp[2].status = NO_CONTENT
  /\ AnswerEntry(ConcRoom) = Some(<< 233 >>)

\* the payload a dictionary of either variant holds for (resource, room)
EntryIn(d, resource, room) ==
  LET ks == DOMAIN d \cap {resource \o ":" \o room, PREFIX \o ":" \o room}
  IN  IF ks = {} THEN None ELSE Some(d[CHOOSE k \in ks : TRUE])

SamePayloads ==
  /\ pair.builtin.resp.body = pair.fastapi.resp.body
  /\ \A room \in RoomIds :
        /\ EntryIn(pair.builtin.offers, "offer", room)
              = EntryIn(pair.fastapi.offers, "offer", room)
        /\ EntryIn(pair.builtin.answers, "answer", room)
              = EntryIn(pair.fastapi.answers, "answer", room)

\* C18: fed the same sequence of protocol requests from empty stores, the
\* two servers return the same status and the same body at every step and
\* hold the same payload for every room after every step
C18_VariantsEquivalent ==
  /\ pair.builtin.resp.status = pair.fastapi.resp.status
  /\ SamePayloads

\* the same, but for the status of a PUT that stored its body: 204 from the
\* stdlib server, 200 from the framework variant
C18_EquivalentButPutStatus ==
  /\ SamePayloads
  /\ \/ pair.builtin.resp.status = pair.fastapi.resp.status
     \/ /\ pair.req.method = "PUT"
        /\ pair.builtin.resp.status = NO_CONTENT
        /\ pair.fastapi.resp.status = OK

====
